---- MODULE Spec2Model ----
(***************************************************************************)
(* A model of the communication-agent service: the rule-based tone         *)
(* detector (app/services/tone_detector.py), the email-response            *)
(* orchestration and the conversation chain (langchain_service.py), the    *)
(* agent facade (ai_agent.py) and the HTTP endpoints (api/endpoints.py).   *)
(*                                                                         *)
(* Text is a sequence of characters, as a Python str is a sequence of code *)
(* points: a character is a one-character TLA+ string, and a code point    *)
(* outside ASCII is written by its name ("U+1F44D").  Chars turns an ASCII *)
(* literal into such a sequence.                                           *)
(***************************************************************************)
EXTENDS Integers, Sequences, FiniteSets, TLC

VARIABLES
    td,          \* a direct call of ToneDetector.detect_tone: its arguments and result
    transcript,  \* LangChainService.memory.chat_memory.messages
    agentCtx,    \* AIAgent.context
    pc,          \* per client: where its request's coroutine stands
    req,         \* per client: the request being served
    loc,         \* per client: the locals its coroutine holds across an await
    resp,        \* per client: the HTTP response of its last request
    started      \* number of requests admitted so far (also the utcnow() reading)

vars == <<td, transcript, agentCtx, pc, req, loc, resp, started>>

-----------------------------------------------------------------------------
(* Text *)

Chars(s) == [i \in 1..Len(s) |-> SubSeq(s, i, i)]

None == <<>>
Some(v) == <<v>>
IsNone(o) == o = <<>>
Get(o) == o[1]

UpperAlpha == Chars("ABCDEFGHIJKLMNOPQRSTUVWXYZ")
LowerAlpha == Chars("abcdefghijklmnopqrstuvwxyz")
Digits == Chars("0123456789")

Range(f) == {f[i] : i \in DOMAIN f}

UpperSet == Range(UpperAlpha)
LowerSet == Range(LowerAlpha)

ToLowerMap == [c \in UpperSet |-> LowerAlpha[CHOOSE i \in 1..26 : UpperAlpha[i] = c]]
ToUpperMap == [c \in LowerSet |-> UpperAlpha[CHOOSE i \in 1..26 : LowerAlpha[i] = c]]

\* str.lower() and str.upper(), one character at a time (ASCII letters fold;
\* the other characters of the model's alphabet have no case).
LowerChar(c) == IF c \in UpperSet THEN ToLowerMap[c] ELSE c
UpperChar(c) == IF c \in LowerSet THEN ToUpperMap[c] ELSE c
Lower(s) == [i \in 1..Len(s) |-> LowerChar(s[i])]

\* The regex class \w, which decides where \b holds.
IsWordChar(c) == c \in UpperSet \cup LowerSet \cup Range(Digits) \cup {"_"}

\* The characters str.strip() removes.
IsSpace(c) == c \in {" ", "\n", "\t", "\r"}

-----------------------------------------------------------------------------
(* Python floats that arise as quotients of small integers, kept exact: a  *)
(* score is matches/len(patterns), a confidence is a score or a mean of    *)
(* scores.  Fractions are kept in lowest terms so that equal numbers are   *)
(* equal values.                                                           *)

RECURSIVE GCD(_, _)
GCD(a, b) == IF b = 0 THEN a ELSE GCD(b, a % b)

Frac(n, d) == LET g == GCD(n, d) IN [num |-> n \div g, den |-> d \div g]
FracGt(a, b) == a.num * b.den > b.num * a.den
FracLe(a, b) == ~FracGt(a, b)
FracMin(a, b) == IF FracGt(a, b) THEN b ELSE a
FracAdd(a, b) == Frac(a.num * b.den + b.num * a.den, a.den * b.den)
FracDivInt(a, k) == Frac(a.num, a.den * k)

Zero == Frac(0, 1)
One == Frac(1, 1)
Half == Frac(1, 2)
Threshold == Frac(3, 10)

-----------------------------------------------------------------------------
(* app/services/tone_detector.py *)

\* A pattern is an alternation of literals, searched anywhere in the text,
\* under (?i) or not, between \b...\b or not; or a run c{min,} of one character.
Alt(icase, wordb, lits) ==
    [kind |-> "alt", icase |-> icase, wordb |-> wordb, lits |-> {Chars(l) : l \in lits}]
AltText(icase, wordb, lits) ==
    [kind |-> "alt", icase |-> icase, wordb |-> wordb, lits |-> lits]
Run(c, min) == [kind |-> "run", ch |-> c, min |-> min]

urgency_patterns == <<
    Alt(FALSE, TRUE, {"URGENT", "ASAP", "EMERGENCY", "CRITICAL", "IMMEDIATE"}),
    Alt(TRUE, FALSE, {"urgent", "emergency", "asap", "right away", "immediately", "right now"}),
    Run("!", 2) >>

complaint_patterns == <<
    Alt(TRUE, FALSE, {"disappointed", "frustrated", "angry", "upset", "terrible", "worst"}),
    Alt(TRUE, FALSE, {"not acceptable", "unacceptable", "poor", "bad experience"}),
    Alt(TRUE, FALSE, {"third time", "again", "still not", "yet to", "never"}),
    Alt(TRUE, FALSE, {"complaint", "issue", "problem", "error", "bug", "failed", "failure"}) >>

formal_patterns == <<
    Alt(TRUE, FALSE, {"dear", "sincerely", "regards", "pursuant", "accordingly"}),
    Alt(TRUE, FALSE, {"request", "inquire", "regarding", "concerning", "matter"}),
    Alt(TRUE, FALSE, {"documentation", "legal", "compliance", "policy", "regulation"}) >>

positive_patterns == <<
    Alt(TRUE, FALSE, {"thank", "appreciate", "great", "good", "excellent", "wonderful"}),
    Alt(TRUE, FALSE, {"love", "enjoy", "pleased", "happy", "satisfied", "helpful"}),
    Alt(TRUE, FALSE, {"feature request", "suggestion", "idea", "feedback"}),
    AltText(FALSE, FALSE, {<<"U+1F60A">>, <<"U+1F44D">>, <<"U+1F64F">>}) >>

\* The literal lit stands in text at position i.
MatchAt(text, i, lit, icase) ==
    /\ i + Len(lit) - 1 <= Len(text)
    /\ \A k \in 1..Len(lit) :
          IF icase THEN LowerChar(text[i + k - 1]) = LowerChar(lit[k])
                   ELSE text[i + k - 1] = lit[k]

\* \b holds between text[k-1] and text[k].
WordBoundary(text, k) ==
    LET w(j) == j \in 1..Len(text) /\ IsWordChar(text[j])
    IN  w(k - 1) # w(k)

\* bool(re.search(pattern, text))
Search(p, text) ==
    IF p.kind = "run"
    THEN \E i \in 1..Len(text) :
            /\ i + p.min - 1 <= Len(text)
            /\ \A k \in 0..(p.min - 1) : text[i + k] = p.ch
    ELSE \E i \in 1..Len(text) : \E lit \in p.lits :
            /\ MatchAt(text, i, lit, p.icase)
            /\ p.wordb => WordBoundary(text, i) /\ WordBoundary(text, i + Len(lit))

\* check_patterns without the division by len(patterns): C6 fails under it.
check_patterns_Count(text, patterns) ==
    Frac(Cardinality({i \in 1..Len(patterns) : Search(patterns[i], text)}), 1)

check_patterns(text, patterns) ==
    LET matches == Cardinality({i \in 1..Len(patterns) : Search(patterns[i], text)})
    IN  FracMin(Frac(matches, Len(patterns)), One)

analyze_message(message) ==
    [urgency    |-> check_patterns(message, urgency_patterns),
     complaint  |-> check_patterns(message, complaint_patterns),
     formality  |-> check_patterns(message, formal_patterns),
     positivity |-> check_patterns(message, positive_patterns)]

\* dict.get(k): None when the key is missing.
DictGet(d, k) == IF k \in DOMAIN d THEN d[k] ELSE None
\* Python truthiness of an optional string: neither None nor "".
TruthyText(o) == ~IsNone(o) /\ Get(o) # <<>>
\* Python truthiness of an optional dict: neither None nor {}.
TruthyDict(o) == ~IsNone(o) /\ DOMAIN Get(o) # {}

\* PriorityOf without .lower(): C7 fails under it.
PriorityOf_NoLower(context) ==
    IF TruthyDict(context) /\ TruthyText(DictGet(Get(context), "priority"))
    THEN Get(DictGet(Get(context), "priority"))
    ELSE Chars("normal")

\* The priority detect_tone works with (lines 71-73).
PriorityOf(context) ==
    IF TruthyDict(context) /\ TruthyText(DictGet(Get(context), "priority"))
    THEN Lower(Get(DictGet(Get(context), "priority")))
    ELSE Chars("normal")

RECURSIVE FracSum(_)
FracSum(s) == IF s = <<>> THEN Zero ELSE FracAdd(Head(s), FracSum(Tail(s)))

\* scores.values(), in the dict's insertion order
ScoreValues(scores) ==
    <<scores.urgency, scores.complaint, scores.formality, scores.positivity>>

\* Decide with the complaint rule tried before the urgency rule: C5 fails under it.
Decide_ComplaintFirst(scores, priority) ==
    IF FracGt(scores.complaint, Threshold)
    THEN [tone |-> "empathetic", confidence |-> scores.complaint]
    ELSE IF FracGt(scores.urgency, Threshold) \/ priority = Chars("critical")
    THEN [tone |-> "direct", confidence |-> scores.urgency]
    ELSE IF FracGt(scores.formality, Threshold)
    THEN [tone |-> "formal", confidence |-> scores.formality]
    ELSE IF FracGt(scores.positivity, Threshold)
    THEN [tone |-> "friendly", confidence |-> scores.positivity]
    ELSE [tone |-> "professional", confidence |-> Half]

\* Decide that labels the default case "neutral", a value outside ToneType:
\* C11 fails under it.
Decide_NeutralLabel(scores, priority) ==
    IF FracGt(scores.urgency, Threshold) \/ priority = Chars("critical")
    THEN [tone |-> "direct", confidence |-> scores.urgency]
    ELSE IF FracGt(scores.complaint, Threshold)
    THEN [tone |-> "empathetic", confidence |-> scores.complaint]
    ELSE IF FracGt(scores.formality, Threshold)
    THEN [tone |-> "formal", confidence |-> scores.formality]
    ELSE IF FracGt(scores.positivity, Threshold)
    THEN [tone |-> "friendly", confidence |-> scores.positivity]
    ELSE [tone |-> "neutral", confidence |-> Half]

\* Decide whose default confidence is the mean over all four scores, the
\* zero ones included: C13 fails under it.
Decide_MeanOfAll(scores, priority) ==
    IF FracGt(scores.urgency, Threshold) \/ priority = Chars("critical")
    THEN [tone |-> "direct", confidence |-> scores.urgency]
    ELSE IF FracGt(scores.complaint, Threshold)
    THEN [tone |-> "empathetic", confidence |-> scores.complaint]
    ELSE IF FracGt(scores.formality, Threshold)
    THEN [tone |-> "formal", confidence |-> scores.formality]
    ELSE IF FracGt(scores.positivity, Threshold)
    THEN [tone |-> "friendly", confidence |-> scores.positivity]
    ELSE [tone |-> "professional",
          confidence |-> IF \E i \in 1..4 : FracGt(ScoreValues(scores)[i], Zero)
                         THEN FracDivInt(FracSum(ScoreValues(scores)), 4)
                         ELSE Half]

\* The decision logic of detect_tone (lines 76-92): the tone and its confidence.
Decide(scores, priority) ==
    IF FracGt(scores.urgency, Threshold) \/ priority = Chars("critical")
    THEN [tone |-> "direct", confidence |-> scores.urgency]
    ELSE IF FracGt(scores.complaint, Threshold)
    THEN [tone |-> "empathetic", confidence |-> scores.complaint]
    ELSE IF FracGt(scores.formality, Threshold)
    THEN [tone |-> "formal", confidence |-> scores.formality]
    ELSE IF FracGt(scores.positivity, Threshold)
    THEN [tone |-> "friendly", confidence |-> scores.positivity]
    ELSE LET non_zero_scores == SelectSeq(ScoreValues(scores), LAMBDA x : FracGt(x, Zero))
         IN  [tone |-> "professional",
              confidence |-> IF non_zero_scores # <<>>
                             THEN FracDivInt(FracSum(non_zero_scores), Len(non_zero_scores))
                             ELSE Half]

\* detect_tone(message, context) -> (tone, metadata)
detect_tone(message, context) ==
    LET scores == analyze_message(message)
        d == Decide(scores, PriorityOf(context))
    IN  [tone |-> d.tone,
         metadata |-> [detected_tone |-> d.tone,
                       confidence |-> d.confidence,
                       factors |-> scores]]

-----------------------------------------------------------------------------
(* app/models/schemas.py *)

\* ToneType
ToneType == {"professional", "friendly", "formal", "empathetic", "direct"}

\* EmailContext: its fields in declaration order; each is None or a value.
ContextFields == <<"customer_name", "customer_history", "account_type",
                   "previous_interactions", "priority", "department",
                   "additional_notes">>

\* An EmailContext with the given name and priority, the other fields unset.
EmailContext(name, priority) ==
    [k \in Range(ContextFields) |->
        IF k = "customer_name" THEN name
        ELSE IF k = "priority" THEN priority
        ELSE None]

\* EmailContext.dict(): every field, the unset ones with value None.
ModelDict(ctx) == [k \in DOMAIN ctx |-> ctx[k]]

-----------------------------------------------------------------------------
(* Inputs of the direct calls of detect_tone *)

ThumbsUp == <<"U+1F44D">>

ToneMessages == {
    Chars("URGENT!! My account is locked, this is unacceptable!!!"),
    Chars("Thank you so much, I love this feature!"),
    Chars("Hello, where is my order?"),
    Chars("Please help!!"),
    Chars("wait!"),
    Chars("this is CRITICAL"),
    Chars("CRITICALLY low stock"),
    Chars("I need this urgently"),
    Chars("Urgent"),
    Chars("come right now, IMMEDIATE action!!"),
    Chars("the issue happened again"),
    Chars("This is the third time it failed!!"),
    Chars("one issue"),
    Chars("angry, unacceptable, never again: it failed"),
    Chars("Dear Sir, regarding the policy"),
    Chars("dear"),
    Chars("good idea"),
    Chars("thanks, one problem"),
    Chars("great ") \o ThumbsUp,
    ThumbsUp,
    Chars("I appreciate it, happy with the suggestion ") \o ThumbsUp,
    Chars("Dear team, thank you, but the error is still not fixed, asap!!"),
    Chars("a bad experience, please inquire, thank you"),
    Chars("!") }

TonePriorities == {
    None, Some(Chars("")), Some(Chars("critical")), Some(Chars("CRITICAL")),
    Some(Chars("Critical")), Some(Chars("high")), Some(Chars("critical ")) }

\* The context argument: None, {}, or the dict of an EmailContext.
ToneContexts ==
    {None, Some(<<>>)} \cup {Some(ModelDict(EmailContext(None, p))) : p \in TonePriorities}

-----------------------------------------------------------------------------
(* A direct call of ToneDetector.detect_tone *)

NoCall == [message |-> <<>>, context |-> None, out |-> None]

DetectToneCall ==
    /\ td.message # <<>>
    /\ IsNone(td.out)
    /\ td' = [td EXCEPT !.out = Some(detect_tone(td.message, td.context))]
    /\ UNCHANGED <<transcript, agentCtx, pc, req, loc, resp, started>>

-----------------------------------------------------------------------------
(* app/services/langchain_service.py *)

\* TONE_GUIDELINES, keyed by the tone's value
TONE_GUIDELINES_KEYS == {"professional", "friendly", "formal", "empathetic", "direct"}

tone_guidelines_text(tone) ==
    CASE tone = "professional" -> "Use a professional and polished tone. Be clear, concise, and business-appropriate."
      [] tone = "friendly" -> "Use a warm and approachable tone. Be personable while maintaining professionalism."
      [] tone = "formal" -> "Use a formal and traditional tone. Be respectful and maintain appropriate distance."
      [] tone = "empathetic" -> "Use an understanding and supportive tone. Show compassion and acknowledge feelings."
      [] tone = "direct" -> "Use a clear and straightforward tone. Be concise and get to the point quickly."

TONE_GUIDELINES_MAP == [t \in TONE_GUIDELINES_KEYS |-> Chars(tone_guidelines_text(t))]
TONE_GUIDELINES(tone) == TONE_GUIDELINES_MAP[tone]

\* self.email_template, cut at its four placeholders {context},
\* {tone_guidelines}, {customer_message} and {max_length}.
EmailTemplateHead ==
    "System: You are a customer support agent responding to customer inquir" \o
    "ies. You must follow these rules strictly:\n" \o
    "1. Respond AS A SUPPORT AGENT addressing the customer's concerns\n" \o
    "2. Output ONLY the email response\n" \o
    "3. Do not include any explanations or thinking process\n" \o
    "4. Do not use XML-like tags\n" \o
    "5. Start with \"Dear [Customer's Name],\"\n" \o
    "6. End with an appropriate signature\n" \o
    "7. Stay within character limits\n" \o
    "8. Maintain the specified tone\n" \o
    "\n" \o
    "SUPPORT AGENT GUIDELINES:\n" \o
    "- Immediately acknowledge the urgency/priority of the issue\n" \o
    "- Provide SPECIFIC, ACTIONABLE steps the customer can take\n" \o
    "- If it's a known issue, provide the current status and ETA\n" \o
    "- Include CONCRETE next steps (e.g., specific phone numbers, links, or" \o
    " procedures)\n" \o
    "- For urgent issues, provide immediate workarounds if available\n" \o
    "- Include your direct contact information and availability\n" \o
    "- Specify when the customer can expect updates or resolution\n" \o
    "- Sign off with your department name and case reference number\n" \o
    "\n" \o
    "RESPONSE STRUCTURE:\n" \o
    "1. Acknowledgment of the specific issue\n" \o
    "2. Immediate action items or workarounds\n" \o
    "3. Next steps and timeline\n" \o
    "4. Your contact information and availability\n" \o
    "5. Case reference or ticket number\n" \o
    "\n" \o
    "CONTEXT INFORMATION:\n"

EmailTemplateAfterContext ==
    "\n" \o
    "\n" \o
    "TONE GUIDELINES:\n"

EmailTemplateAfterTone ==
    "\n" \o
    "\n" \o
    "CUSTOMER MESSAGE:\n"

EmailTemplateAfterMessage ==
    "\n" \o
    "\n" \o
    "REQUIREMENTS:\n" \o
    "1. Provide SPECIFIC, ACTIONABLE solutions\n" \o
    "2. Maintain the specified tone\n" \o
    "3. Be clear and well-structured\n" \o
    "4. Stay within "

EmailTemplateTail ==
    " characters\n" \o
    "5. Include concrete next steps\n" \o
    "6. Reference relevant documentation\n" \o
    "7. Provide timeline expectations\n" \o
    "8. Include case/ticket reference\n" \o
    "\n" \o
    "Generate the support agent's email response below:"

EmailTemplateParts ==
    <<Chars(EmailTemplateHead), Chars(EmailTemplateAfterContext),
      Chars(EmailTemplateAfterTone), Chars(EmailTemplateAfterMessage),
      Chars(EmailTemplateTail)>>

\* str.replace(old, new) for single characters
ReplaceChar(s, old, new) == [i \in 1..Len(s) |-> IF s[i] = old THEN new ELSE s[i]]

\* str.title(): a letter that follows a non-letter is upper-cased, any other lower-cased.
Title(s) ==
    LET cased(c) == c \in UpperSet \cup LowerSet
    IN  [i \in 1..Len(s) |->
            IF i = 1 \/ ~cased(s[i - 1]) THEN UpperChar(s[i]) ELSE LowerChar(s[i])]

\* str(value) of a context field: previous_interactions is an int, the others are str.
ValueText(key, value) ==
    IF key = "previous_interactions" THEN Chars(ToString(value)) ELSE value

RECURSIVE ContextLines(_, _)
\* The loop of _format_context over context.dict(exclude_none=True).items()
ContextLines(ctx, keys) ==
    IF keys = <<>> THEN <<>>
    ELSE LET key == Head(keys)
         IN  (IF IsNone(ctx[key]) THEN <<>>
              ELSE Chars("- ") \o Title(ReplaceChar(Chars(key), "_", " ")) \o Chars(": ")
                   \o ValueText(key, Get(ctx[key])) \o Chars("\n"))
             \o ContextLines(ctx, Tail(keys))

\* _format_context(context): context is None or an EmailContext (a model
\* object, which is truthy whatever its fields hold).
format_context(context) ==
    IF IsNone(context) THEN Chars("No additional context provided.")
    ELSE Chars("Customer Information:\n") \o ContextLines(Get(context), ContextFields)

\* request.max_length or 2048
DefaultMaxLength == 2048
EffectiveMaxLength(max_length) ==
    IF IsNone(max_length) \/ Get(max_length) = 0 THEN DefaultMaxLength ELSE Get(max_length)

\* self.email_template.format(context=..., tone_guidelines=..., customer_message=..., max_length=...)
FormatPrompt(context_str, tone_guidelines, customer_message, max_length) ==
    EmailTemplateParts[1] \o context_str
    \o EmailTemplateParts[2] \o tone_guidelines
    \o EmailTemplateParts[3] \o customer_message
    \o EmailTemplateParts[4] \o Chars(ToString(max_length))
    \o EmailTemplateParts[5]

\* ResolveTone that runs the detector whatever the request says, and keeps an
\* explicit tone only as the tone used: C2 fails under it.
ResolveTone_AlwaysDetect(request) ==
    LET context_dict == IF ~IsNone(request.context)
                        THEN Some(ModelDict(Get(request.context)))
                        ELSE Some(<<>>)
        detected == detect_tone(request.customer_message, context_dict)
    IN  [tone |-> IF ~IsNone(request.tone) THEN Get(request.tone) ELSE detected.tone,
         tone_detection |-> Some(detected.metadata)]

\* Lines 146-157: the tone and the detection metadata a request resolves to.
ResolveTone(request) ==
    IF ~IsNone(request.tone)
    THEN [tone |-> Get(request.tone), tone_detection |-> None]
    ELSE LET context_dict == IF ~IsNone(request.context)
                             THEN Some(ModelDict(Get(request.context)))
                             ELSE Some(<<>>)
             detected == detect_tone(request.customer_message, context_dict)
         IN  [tone |-> detected.tone, tone_detection |-> Some(detected.metadata)]

\* Lines 161-168: a tone outside ToneType (or without a guideline) falls back
\* to professional.
ValidTone(tone) ==
    IF tone \in ToneType /\ tone \in TONE_GUIDELINES_KEYS THEN tone ELSE "professional"

\* str.strip()
RECURSIVE LStrip(_)
LStrip(s) == IF s # <<>> /\ IsSpace(Head(s)) THEN LStrip(Tail(s)) ELSE s
RECURSIVE RStrip(_)
RStrip(s) == IF s # <<>> /\ IsSpace(s[Len(s)]) THEN RStrip(SubSeq(s, 1, Len(s) - 1)) ELSE s
Strip(s) == RStrip(LStrip(s))

\* sub in s
Contains(s, sub) == \E i \in 1..(Len(s) + 1) : MatchAt(s, i, sub, FALSE)

\* s.split(sep)[-1]: what follows the last occurrence of sep, or s without one.
SplitLast(s, sep) ==
    LET at == {i \in 1..Len(s) : MatchAt(s, i, sep, FALSE)}
    IN  IF at = {} THEN s
        ELSE LET last == CHOOSE i \in at : \A j \in at : j <= i
             IN  SubSeq(s, last + Len(sep), Len(s))

ThinkOpen == Chars("<think>")
ThinkClose == Chars("</think>")

\* Lines 182-186: the message made of the generated text.
PostProcess(text) ==
    LET message == Strip(text)
    IN  IF Contains(message, ThinkOpen)
        THEN Strip(SplitLast(message, ThinkClose))
        ELSE message

\* settings, as generation_settings reports them (app/core/config.py)
TEMPERATURE == Frac(3, 10)
MAX_TOKENS == 4096
TOP_P == Frac(9, 10)
TOP_K == 40

\* Lines 192-209: the EmailResponse of a generation that returned text.
\* execution_time_ms, a wall-clock reading no operation depends on, is left out.
BuildEmailResponse(text, tone, prompt_len, tone_detection) ==
    [message |-> PostProcess(text),
     status_code |-> 200,
     metadata |-> [tone_used |-> tone,
                   context_length |-> prompt_len,
                   generation_settings |-> [temperature |-> TEMPERATURE,
                                            max_tokens |-> MAX_TOKENS,
                                            top_p |-> TOP_P,
                                            top_k |-> TOP_K],
                   tone_detection |-> tone_detection]]

\* PrepareEmail that measures the customer message instead of the prompt:
\* C10 fails under it.
PrepareEmail_MessageLength(request) ==
    LET r == ResolveTone(request)
    IN  [tone |-> ValidTone(r.tone), tone_detection |-> r.tone_detection,
         prompt_len |-> Len(request.customer_message)]

\* Lines 145-177: what generate_email_response holds when it awaits the
\* generation call: the tone, the detection metadata and the prompt.
PrepareEmail(request) ==
    LET r == ResolveTone(request)
        tone == ValidTone(r.tone)
        prompt == FormatPrompt(format_context(request.context),
                               TONE_GUIDELINES(tone),
                               request.customer_message,
                               EffectiveMaxLength(request.max_length))
    IN  [tone |-> tone, tone_detection |-> r.tone_detection, prompt_len |-> Len(prompt)]

-----------------------------------------------------------------------------
(* The generation capability (OllamaLLM.agenerate): an outcome is None when *)
(* the call raises, and Some(text) when it returns text.                    *)

Raises == None

\* Healthy without the strip(): whitespace-only text counts as healthy.  C16
\* fails under it.
Healthy_NoStrip(outcome) == ~IsNone(outcome) /\ Get(outcome) # <<>>

\* bool(response.generations[0][0].text.strip()) in health_check; an
\* exception counts as unhealthy (ai_agent.py lines 75-81).
Healthy(outcome) == ~IsNone(outcome) /\ Strip(Get(outcome)) # <<>>

-----------------------------------------------------------------------------
(* State *)

Clients == {"c1", "c2"}

\* Requests the model admits in one run
MaxRequests == 3

NoReq == [kind |-> "none"]
NoResp == [kind |-> "none", status |-> 0, body |-> <<>>]
NoLoc == [health_done |-> FALSE, health |-> None,
          prepared |-> None,
          gen_done |-> FALSE, gen |-> None]

\* dict[key] = value
DictSet(d, key, value) ==
    [k \in DOMAIN d \cup {key} |-> IF k = key THEN value ELSE d[k]]

EmptyDict == <<>>

Ok(body) == [kind |-> "ok", status |-> 200, body |-> body]
\* raise HTTPException(status_code=..., detail={"error": ..., "details": ...})
HTTPException(status, error, details) ==
    [kind |-> "error", status |-> status, body |-> [error |-> error, details |-> details]]
\* An exception leaving a method that was called directly, not through an endpoint
Raised(what) == [kind |-> "raised", status |-> 0, body |-> what]

ServiceUnavailable ==
    HTTPException(503, "AI service is currently unavailable", "Service is not responding")
InternalError(e) == HTTPException(500, "Internal server error", e)

\* StatusResponse.status_must_be_valid (schemas.py lines 84-89)
valid_statuses == {"running", "error", "maintenance"}
status_must_be_valid(v) == v \in valid_statuses

\* AIAgent.get_conversation_history (ai_agent.py lines 62-65)
get_conversation_history(messages) ==
    [i \in 1..Len(messages) |-> [role |-> messages[i].type, content |-> messages[i].content]]

\* save_context that puts the exchange in front of the stored messages: C12
\* fails under it.
save_context_Prepends(messages, input, output) ==
    <<[type |-> "human", content |-> input], [type |-> "ai", content |-> output]>> \o messages

\* ConversationBufferMemory.save_context: the exchange the chain appends
\* after a generation that returned (langchain_service.py line 228).
save_context(messages, input, output) ==
    messages \o <<[type |-> "human", content |-> input], [type |-> "ai", content |-> output]>>

\* clear_memory that leaves the messages in place: C4 fails under it.
clear_memory_KeepsAll(messages) == messages

\* LangChainService.clear_memory (langchain_service.py lines 239-242)
clear_memory(messages) == <<>>

InitService ==
    /\ transcript = <<>>
    /\ agentCtx = EmptyDict
    /\ pc = [c \in Clients |-> "idle"]
    /\ req = [c \in Clients |-> NoReq]
    /\ loc = [c \in Clients |-> NoLoc]
    /\ resp = [c \in Clients |-> NoResp]
    /\ started = 0

Init ==
    /\ td = NoCall
    /\ InitService

\* A client sends a request when it has none in progress.
Admit(c, request) ==
    /\ pc[c] = "idle"
    /\ started < MaxRequests
    /\ started' = started + 1
    /\ req' = [req EXCEPT ![c] = request]

\* The request's coroutine suspends at an await of the generation capability.
Await(c, at, locals) ==
    /\ pc' = [pc EXCEPT ![c] = at]
    /\ loc' = [loc EXCEPT ![c] = locals]
    /\ resp' = [resp EXCEPT ![c] = NoResp]

Finish(c, response) ==
    /\ resp' = [resp EXCEPT ![c] = response]
    /\ pc' = [pc EXCEPT ![c] = "done"]

-----------------------------------------------------------------------------
(* POST /chat: chat_with_ai (endpoints.py lines 23-43) *)

\* The request arrives; health_check awaits llm.agenerate(["Hi"]).
ChatStart(c, message) ==
    /\ Admit(c, [kind |-> "chat", message |-> message])
    /\ Await(c, "chat_health", NoLoc)
    /\ UNCHANGED <<td, transcript, agentCtx>>

\* The health call ends.  Unhealthy: 503.  Healthy: process_message stores
\* the message in the agent's context and generate_response awaits the chain.
ChatHealthReturn(c, outcome) ==
    /\ pc[c] = "chat_health"
    /\ loc' = [loc EXCEPT ![c].health_done = TRUE, ![c].health = outcome]
    /\ IF ~Healthy(outcome)
       THEN /\ Finish(c, ServiceUnavailable)
            /\ UNCHANGED agentCtx
       ELSE /\ agentCtx' = DictSet(DictSet(agentCtx, "last_message", req[c].message),
                                   "last_timestamp", started)
            /\ pc' = [pc EXCEPT ![c] = "chat_llm"]
            /\ UNCHANGED resp
    /\ UNCHANGED <<td, transcript, req, started>>

\* The chain's generation call ends.  It raised: the exception reaches the
\* endpoint's except Exception, 500.  It returned: the chain saves the
\* exchange to memory and the stripped text is the response.
ChatLLMReturn(c, outcome) ==
    /\ pc[c] = "chat_llm"
    /\ loc' = [loc EXCEPT ![c].gen_done = TRUE, ![c].gen = outcome]
    /\ IF IsNone(outcome)
       THEN /\ Finish(c, InternalError("generation failed"))
            /\ UNCHANGED transcript
       ELSE /\ transcript' = save_context(transcript, req[c].message, Get(outcome))
            /\ Finish(c, Ok([response |-> Strip(Get(outcome))]))
    /\ UNCHANGED <<td, agentCtx, req, started>>

-----------------------------------------------------------------------------
(* POST /email/respond: generate_email_response (endpoints.py lines 55-75) *)

EmailRequest(via, customer_message, context, tone, max_length) ==
    [kind |-> "email", via |-> via, customer_message |-> customer_message,
     context |-> context, tone |-> tone, max_length |-> max_length]

EmailStart(c, request) ==
    /\ request.via = "endpoint"
    /\ Admit(c, request)
    /\ Await(c, "email_health", NoLoc)
    /\ UNCHANGED <<td, transcript, agentCtx>>

\* AIAgent.generate_email_response up to its await (ai_agent.py lines 52-57):
\* the context the agent is left with, and whether request.tone.value raised.
FacadeEmail(ctx, request, now) ==
    LET c1 == DictSet(ctx, "last_email", request.customer_message)
    IN  IF IsNone(request.tone)
        THEN [raised |-> TRUE, context |-> c1]
        ELSE [raised |-> FALSE,
              context |-> DictSet(DictSet(c1, "last_tone", Get(request.tone)),
                                  "last_timestamp", now)]

\* The health call ends.  Unhealthy: 503.  Healthy: the facade records the
\* request, then LangChainService.generate_email_response resolves the tone,
\* assembles the prompt and awaits the generation call.
EmailHealthReturn(c, outcome) ==
    /\ pc[c] = "email_health"
    /\ IF ~Healthy(outcome)
       THEN /\ Finish(c, ServiceUnavailable)
            /\ loc' = [loc EXCEPT ![c].health_done = TRUE, ![c].health = outcome]
            /\ UNCHANGED agentCtx
       ELSE LET f == FacadeEmail(agentCtx, req[c], started)
            IN  /\ agentCtx' = f.context
                /\ IF f.raised
                   THEN /\ Finish(c, InternalError("'NoneType' object has no attribute 'value'"))
                        /\ loc' = [loc EXCEPT ![c].health_done = TRUE,
                                              ![c].health = outcome]
                   ELSE /\ loc' = [loc EXCEPT ![c].health_done = TRUE,
                                              ![c].health = outcome,
                                              ![c].prepared = Some(PrepareEmail(req[c]))]
                        /\ pc' = [pc EXCEPT ![c] = "email_llm"]
                        /\ UNCHANGED resp
    /\ UNCHANGED <<td, transcript, req, started>>

\* LangChainService.generate_email_response called directly (lines 133-181).
ServiceEmailCall(c, request) ==
    /\ request.via = "service"
    /\ Admit(c, request)
    /\ Await(c, "email_llm", [NoLoc EXCEPT !.prepared = Some(PrepareEmail(request))])
    /\ UNCHANGED <<td, transcript, agentCtx>>

\* The generation call ends (lines 181-214).  It raised: the exception is
\* re-raised, and becomes a 500 at the endpoint.  It returned: the
\* EmailResponse is built and returned.
EmailLLMReturn(c, outcome) ==
    /\ pc[c] = "email_llm"
    /\ loc' = [loc EXCEPT ![c].gen_done = TRUE, ![c].gen = outcome]
    /\ LET p == Get(loc[c].prepared)
       IN  IF IsNone(outcome)
           THEN Finish(c, IF req[c].via = "endpoint"
                          THEN InternalError("generation failed")
                          ELSE Raised("generation failed"))
           ELSE Finish(c, Ok(BuildEmailResponse(Get(outcome), p.tone, p.prompt_len,
                                                p.tone_detection)))
    /\ UNCHANGED <<td, transcript, agentCtx, req, started>>

-----------------------------------------------------------------------------
(* GET /chat/history, POST /chat/clear, GET /status *)

\* get_chat_history (endpoints.py lines 85-94): no await suspends it.
GetChatHistory(c) ==
    /\ Admit(c, [kind |-> "history"])
    /\ loc' = [loc EXCEPT ![c] = NoLoc]
    /\ Finish(c, Ok([messages |-> get_conversation_history(transcript)]))
    /\ UNCHANGED <<td, transcript, agentCtx>>

\* StatusResponse(status=...): the model object, or the validator's error.
StatusResponse(status) ==
    IF status_must_be_valid(status)
    THEN [raised |-> FALSE, value |-> [status |-> status, version |-> "1.0.0"]]
    ELSE [raised |-> TRUE, value |-> "Status must be one of: ['running', 'error', 'maintenance']"]

\* clear_chat that is held back while a chat request is suspended in its
\* generation call: C15 fails under it.
ClearChat_WaitsForSends(c) ==
    /\ \A d \in Clients : pc[d] # "chat_llm"
    /\ Admit(c, [kind |-> "clear"])
    /\ loc' = [loc EXCEPT ![c] = NoLoc]
    /\ transcript' = clear_memory(transcript)
    /\ agentCtx' = EmptyDict
    /\ LET ack == StatusResponse("conversation cleared")
       IN  Finish(c, IF ack.raised
                     THEN HTTPException(500, "Failed to clear chat history", ack.value)
                     ELSE Ok(ack.value))
    /\ UNCHANGED td

\* clear_chat (endpoints.py lines 104-113): clear_conversation wipes the
\* memory and the agent's context, then the acknowledgment is built.
ClearChat(c) ==
    /\ Admit(c, [kind |-> "clear"])
    /\ loc' = [loc EXCEPT ![c] = NoLoc]
    /\ transcript' = clear_memory(transcript)
    /\ agentCtx' = EmptyDict
    /\ LET ack == StatusResponse("conversation cleared")
       IN  Finish(c, IF ack.raised
                     THEN HTTPException(500, "Failed to clear chat history", ack.value)
                     ELSE Ok(ack.value))
    /\ UNCHANGED td

\* get_status (endpoints.py lines 123-130)
StatusStart(c) ==
    /\ Admit(c, [kind |-> "status"])
    /\ Await(c, "status_health", NoLoc)
    /\ UNCHANGED <<td, transcript, agentCtx>>

StatusHealthReturn(c, outcome) ==
    /\ pc[c] = "status_health"
    /\ loc' = [loc EXCEPT ![c].health_done = TRUE, ![c].health = outcome]
    /\ LET s == StatusResponse("running")
       IN  Finish(c, IF ~Healthy(outcome)
                     THEN HTTPException(503, "Service unhealthy", "AI service is not responding")
                     ELSE IF s.raised THEN HTTPException(500, "Internal Server Error", s.value)
                     ELSE Ok(s.value))
    /\ UNCHANGED <<td, transcript, agentCtx, req, started>>

\* The response has gone out to the client and the handler's frame is
\* dropped (the return and raise statements of endpoints.py).
Respond(c) ==
    /\ pc[c] = "done"
    /\ pc' = [pc EXCEPT ![c] = "idle"]
    /\ req' = [req EXCEPT ![c] = NoReq]
    /\ loc' = [loc EXCEPT ![c] = NoLoc]
    /\ resp' = [resp EXCEPT ![c] = NoResp]
    /\ UNCHANGED <<td, transcript, agentCtx, started>>

-----------------------------------------------------------------------------
(* Inputs *)

ChatMessages == {Chars("Hello"), Chars("Is it URGENT?")}

HealthOutcomes == {Raises, Some(Chars("")), Some(Chars(" \n")), Some(Chars("Hi!"))}

ChatOutcomes == {Raises, Some(Chars(" Hello there.\n"))}

NoTone == None

EmailRequests ==
    {EmailRequest("endpoint", Chars("Please help!!"), None, t, None) :
        t \in {NoTone, Some("formal")}}

EmailOutcomes == {Raises, Some(Chars("")), Some(Chars("Dear Ann, done."))}

-----------------------------------------------------------------------------
(* The service: every endpoint, served concurrently on one event loop *)

Next ==
    \E c \in Clients :
        \/ \E m \in ChatMessages : ChatStart(c, m)
        \/ \E o \in HealthOutcomes : ChatHealthReturn(c, o)
        \/ \E o \in ChatOutcomes : ChatLLMReturn(c, o)
        \/ \E r \in EmailRequests : EmailStart(c, r)
        \/ \E o \in HealthOutcomes : EmailHealthReturn(c, o)
        \/ \E o \in EmailOutcomes : EmailLLMReturn(c, o)
        \/ GetChatHistory(c)
        \/ ClearChat(c)
        \/ StatusStart(c)
        \/ \E o \in HealthOutcomes : StatusHealthReturn(c, o)
        \/ Respond(c)

Spec == Init /\ [][Next]_vars

-----------------------------------------------------------------------------
(* The tone detector, called directly on each message and context *)

InitTone ==
    /\ td \in [message : ToneMessages, context : ToneContexts, out : {None}]
    /\ InitService

NextTone == DetectToneCall

SpecTone == InitTone /\ [][NextTone]_vars

-----------------------------------------------------------------------------
(* The email-response path, one request at a time: through the endpoint    *)
(* and the facade, or by a direct call of                                  *)
(* LangChainService.generate_email_response.                               *)

EmailMessages == {
    Chars("URGENT!! My account is locked, this is unacceptable!!!"),
    Chars("Hello, where is my order?") }

\* Messages the detector answers with the three other tones
OtherToneMessages == {
    Chars("the issue happened again"),
    Chars("Dear Sir, regarding the policy"),
    Chars("Thank you so much, I love this feature!") }

EmailContexts == {
    None,
    Some(EmailContext(None, None)),
    Some(EmailContext(Some(Chars("Ann Lee")), Some(Chars("Critical")))) }

EmailTones == {NoTone} \cup {Some(t) : t \in ToneType}

\* max_length: Optional[int], le=4096
EmailMaxLengths == {None, Some(0), Some(4096)}

\* Requests sent to the endpoint
RichEmailRequests ==
    {EmailRequest("endpoint", m, x, t, n) :
        m \in EmailMessages, x \in EmailContexts, t \in EmailTones, n \in EmailMaxLengths}

\* A tone whose value is not a ToneType: only a request built without
\* validation (EmailRequest.construct) can carry it.
UnvalidatedTones == {Some("casual")}

\* Requests handed to LangChainService.generate_email_response directly
ServiceEmailRequests ==
    {EmailRequest("service", m, x, t, n) :
        m \in EmailMessages, x \in EmailContexts, t \in EmailTones,
        n \in EmailMaxLengths}
    \cup {EmailRequest("service", m, None, NoTone, None) : m \in OtherToneMessages}
    \cup {EmailRequest("service", m, None, t, None) :
            m \in EmailMessages, t \in UnvalidatedTones}

\* Email requests the model admits in one run
MaxEmailCalls == 2

RichEmailOutcomes == {
    Raises,
    Some(Chars("")),
    Some(Chars(" \n")),
    Some(Chars("\nDear Ann, we are on it.\n")),
    Some(Chars("<think>She is upset.</think>\nDear Ann, sorry. ")),
    Some(Chars("<think>no end")),
    Some(Chars("Dear Ann</think> bye")),
    Some(Chars("<think>plan</think>Dear Ann,</think> bye")) }

TheClient == "c1"

NextEmail ==
    \/ \E r \in RichEmailRequests : started < MaxEmailCalls /\ EmailStart(TheClient, r)
    \/ \E o \in HealthOutcomes : EmailHealthReturn(TheClient, o)
    \/ \E r \in ServiceEmailRequests : started < MaxEmailCalls /\ ServiceEmailCall(TheClient, r)
    \/ \E o \in RichEmailOutcomes : EmailLLMReturn(TheClient, o)
    \/ Respond(TheClient)

SpecEmail == Init /\ [][NextEmail]_vars

-----------------------------------------------------------------------------
(* Claims *)

Done(c, kind) == pc[c] = "done" /\ req[c].kind = kind

\* The context dict detect_tone receives for a request (lines 151-155).
ContextDictOf(request) ==
    IF ~IsNone(request.context) THEN Some(ModelDict(Get(request.context))) ELSE Some(<<>>)

\* C1 (as claimed): an email request that reaches the facade with no explicit
\* tone, and whose generation call does not fail, completes with a result
\* whose tone_used is the detected tone and whose tone_detection is present.
\* The facade reads request.tone.value and raises instead.
C1_NoToneRequestCompletes ==
    \A c \in Clients :
        (/\ Done(c, "email")
         /\ req[c].via = "endpoint"
         /\ IsNone(req[c].tone)
         /\ loc[c].health_done /\ Healthy(loc[c].health)
         /\ ~(loc[c].gen_done /\ IsNone(loc[c].gen)))
        => /\ resp[c].kind = "ok"
           /\ ~IsNone(resp[c].body.metadata.tone_detection)
           /\ resp[c].body.metadata.tone_used =
                 detect_tone(req[c].customer_message, ContextDictOf(req[c])).tone

\* C2: a result of a request with an explicit tone t has tone_used = t and
\* no tone_detection, whatever the detector would say of the message.
C2_ExplicitToneOverrides ==
    \A c \in Clients :
        (/\ Done(c, "email") /\ ~IsNone(req[c].tone) /\ resp[c].kind = "ok"
         /\ Get(req[c].tone) \in ToneType)
        => /\ resp[c].body.metadata.tone_used = Get(req[c].tone)
           /\ IsNone(resp[c].body.metadata.tone_detection)
           /\ IsNone(Get(loc[c].prepared).tone_detection)

\* An explicit "formal" served through the endpoint for a message the
\* detector would call "direct".
C2_Witness ==
    \E c \in Clients :
        /\ Done(c, "email") /\ req[c].via = "endpoint" /\ resp[c].kind = "ok"
        /\ req[c].tone = Some("formal")
        /\ detect_tone(req[c].customer_message, ContextDictOf(req[c])).tone = "direct"

\* C3 (as claimed): a clear request is answered with a successful, valid
\* status acknowledgment.  The acknowledgment's status, "conversation
\* cleared", does not pass StatusResponse's own validator.
C3_ClearAcknowledged ==
    \A c \in Clients :
        Done(c, "clear")
        => resp[c].kind = "ok" /\ status_must_be_valid(resp[c].body.status)

\* C4: in the state a clear leaves, with nothing in between, history()
\* returns the empty sequence.
C4_ClearThenHistoryEmpty ==
    [][\A c \in Clients :
          ClearChat(c) => get_conversation_history(transcript') = <<>>]_vars

\* A clear has been served after a chat exchange had been appended.
C4_Witness ==
    \E c, d \in Clients :
        /\ Done(c, "clear")
        /\ Done(d, "chat") /\ resp[d].kind = "ok"
        /\ transcript = <<>>

MatchesUrgency(message) == \E i \in 1..Len(urgency_patterns) : Search(urgency_patterns[i], message)

Called == ~IsNone(td.out)
Result == Get(td.out)

\* C5: a message that matches at least one of the three urgency patterns is
\* given the tone "direct", whatever its other scores and the context.
C5_UrgencyGivesDirect ==
    (Called /\ MatchesUrgency(td.message)) => Result.tone = "direct"

\* One urgency pattern matches while the complaint score is above the threshold.
C5_Witness ==
    /\ Called
    /\ Result.metadata.factors.urgency = Frac(1, 3)
    /\ FracGt(Result.metadata.factors.complaint, Threshold)
    /\ Result.tone = "direct"

AxisKeys == {"urgency", "complaint", "formality", "positivity"}
InUnit(x) == FracLe(Zero, x) /\ FracLe(x, One)

\* C6: confidence and every axis score lie in [0,1], and factors has exactly
\* the four axis keys.
C6_ScoresInUnitInterval ==
    Called =>
        /\ InUnit(Result.metadata.confidence)
        /\ DOMAIN Result.metadata.factors = AxisKeys
        /\ \A k \in AxisKeys : InUnit(Result.metadata.factors[k])

\* Every pattern of an axis matches (score 1) under a critical priority.
C6_Witness ==
    /\ Called
    /\ Result.metadata.factors.complaint = One
    /\ \E k \in AxisKeys : Result.metadata.factors[k] = Zero
    /\ PriorityOf(td.context) = Chars("critical")

\* The priority of the context, None when the context or the field is unset.
GivenPriority(context) ==
    IF IsNone(context) THEN None ELSE DictGet(Get(context), "priority")

EqualIgnoringCase(a, b) ==
    Len(a) = Len(b) /\ \A i \in 1..Len(a) : LowerChar(a[i]) = LowerChar(b[i])

\* C7: a priority equal to "critical" up to case gives "direct" with the
\* urgency score as confidence, which is 0 when no urgency pattern matches;
\* an absent or unset priority does not by itself give "direct".
C7_CriticalPriorityGivesDirect ==
    Called =>
        LET p == GivenPriority(td.context)
        IN  /\ (~IsNone(p) /\ EqualIgnoringCase(Get(p), Chars("critical")))
               => /\ Result.tone = "direct"
                  /\ Result.metadata.confidence = Result.metadata.factors.urgency
                  /\ ~MatchesUrgency(td.message) => Result.metadata.confidence = Zero
            /\ (IsNone(p) /\ ~FracGt(Result.metadata.factors.urgency, Threshold))
               => Result.tone # "direct"

\* Priority "CRITICAL", no urgency pattern, a complaint score above the threshold.
C7_Witness ==
    /\ Called
    /\ GivenPriority(td.context) = Some(Chars("CRITICAL"))
    /\ ~MatchesUrgency(td.message)
    /\ FracGt(Result.metadata.factors.complaint, Threshold)
    /\ Result.tone = "direct" /\ Result.metadata.confidence = Zero

\* C8 (as claimed): a chat request during which a generation call raised is
\* answered 503.  A failure of the chain's call, after a healthy health
\* check, is answered 500.
C8_GenerationFailureIs503 ==
    \A c \in Clients :
        (/\ Done(c, "chat")
         /\ \/ loc[c].health_done /\ IsNone(loc[c].health)
            \/ loc[c].gen_done /\ IsNone(loc[c].gen))
        => resp[c].status = 503

\* C9 (as claimed): an email generation call that returns empty or
\* whitespace-only text is surfaced as a failure.  The code returns a result
\* with status_code 200 and an empty message.
C9_EmptyOutputIsFailure ==
    \A c \in Clients :
        (/\ Done(c, "email")
         /\ loc[c].gen_done /\ ~IsNone(loc[c].gen) /\ Strip(Get(loc[c].gen)) = <<>>)
        => resp[c].kind \in {"error", "raised"}

\* The length of template + formatted context + guideline + message + max length.
AssembledLength(request, tone) ==
    Len(EmailTemplateHead) + Len(format_context(request.context))
    + Len(EmailTemplateAfterContext) + Len(tone_guidelines_text(tone))
    + Len(EmailTemplateAfterTone) + Len(request.customer_message)
    + Len(EmailTemplateAfterMessage)
    + Len(ToString(EffectiveMaxLength(request.max_length)))
    + Len(EmailTemplateTail)

\* C10: context_length is the length of the assembled prompt, and exceeds
\* the length of the customer message.
C10_ContextLengthIsPromptLength ==
    \A c \in Clients :
        (Done(c, "email") /\ resp[c].kind = "ok")
        => LET m == resp[c].body.metadata
           IN  /\ m.context_length = AssembledLength(req[c], m.tone_used)
               /\ m.context_length > Len(req[c].customer_message)

\* A result with a detected tone, a context with fields set and max_length 0.
C10_Witness ==
    \E c \in Clients :
        /\ Done(c, "email") /\ resp[c].kind = "ok"
        /\ ~IsNone(resp[c].body.metadata.tone_detection)
        /\ ~IsNone(req[c].context) /\ ~IsNone(Get(req[c].context)["customer_name"])
        /\ req[c].max_length = Some(0)

\* C11: every request that has resolved its tone holds one of the five
\* ToneType values, for which TONE_GUIDELINES has a sentence; a tone the
\* detector returned is one of the five; a requested tone outside ToneType has
\* become "professional"; and the tone_used of a result is that tone.
C11_ToneAlwaysInEnumeration ==
    \A c \in Clients :
        (req[c].kind = "email" /\ ~IsNone(loc[c].prepared))
        => LET p == Get(loc[c].prepared)
           IN  /\ p.tone \in ToneType
               /\ p.tone \in DOMAIN TONE_GUIDELINES_MAP
               /\ ~IsNone(p.tone_detection)
                    => /\ Get(p.tone_detection).detected_tone \in ToneType
                       /\ p.tone = Get(p.tone_detection).detected_tone
               /\ (~IsNone(req[c].tone) /\ Get(req[c].tone) \notin ToneType)
                    => p.tone = "professional"
               /\ (pc[c] = "done" /\ resp[c].kind = "ok")
                    => resp[c].body.metadata.tone_used = p.tone

\* The result of a directly called request whose tone, "casual", is outside
\* ToneType: it was answered in the professional tone.
C11_Witness ==
    \E c \in Clients :
        /\ Done(c, "email") /\ resp[c].kind = "ok"
        /\ req[c].tone = Some("casual")
        /\ resp[c].body.metadata.tone_used = "professional"

IsPrefix(s, t) == Len(s) <= Len(t) /\ SubSeq(t, 1, Len(s)) = s

\* The step in which the chat request of c comes back from its generation call
ChatReturns(c) == pc[c] = "chat_llm" /\ pc'[c] = "done"

RuleAxis == <<"urgency", "complaint", "formality", "positivity">>
RuleTone == <<"direct", "empathetic", "formal", "friendly">>

IsCritical(context) ==
    LET p == GivenPriority(context)
    IN  ~IsNone(p) /\ EqualIgnoringCase(Get(p), Chars("critical"))

\* C13: the first rule, in the order urgency, complaint, formality,
\* positivity, whose score is above 0.3 (for urgency: or the priority is
\* critical) gives the tone, and the confidence is the score of its axis;
\* when no rule holds the tone is "professional" and the confidence is the
\* mean of the scores above zero, or 0.5 when all four are zero.
C13_FirstRuleDecides ==
    Called =>
        LET f == Result.metadata.factors
            Holds(i) == FracGt(f[RuleAxis[i]], Threshold) \/ (i = 1 /\ IsCritical(td.context))
            firing == {i \in 1..4 : Holds(i)}
            positive == {k \in AxisKeys : FracGt(f[k], Zero)}
            total == FracAdd(FracAdd(f.urgency, f.complaint), FracAdd(f.formality, f.positivity))
        IN  IF firing # {}
            THEN LET first == CHOOSE i \in firing : \A j \in firing : i <= j
                 IN  /\ Result.tone = RuleTone[first]
                     /\ Result.metadata.confidence = f[RuleAxis[first]]
            ELSE /\ Result.tone = "professional"
                 /\ Result.metadata.confidence =
                        (IF positive = {} THEN Half
                         ELSE FracDivInt(total, Cardinality(positive)))

\* No rule holds, two scores are above zero and another is zero: the
\* confidence is the mean of the two.
C13_Witness ==
    /\ Called
    /\ Result.tone = "professional"
    /\ Cardinality({k \in AxisKeys : FracGt(Result.metadata.factors[k], Zero)}) = 2
    /\ Result.metadata.confidence # Half

\* The positions in s where sub lies
Occurrences(s, sub) == {i \in 1..Len(s) : MatchAt(s, i, sub, FALSE)}

\* A thinking segment: a start marker followed later by an end marker.
HasThinkingSegment(s) ==
    \E i \in Occurrences(s, ThinkOpen) :
        \E j \in Occurrences(s, ThinkClose) : j >= i + Len(ThinkOpen)

\* The text after the end marker that closes the first start marker
AfterThinkingSegment(s) ==
    LET opens == Occurrences(s, ThinkOpen)
        open == CHOOSE i \in opens : \A k \in opens : i <= k
        closes == {j \in Occurrences(s, ThinkClose) : j >= open + Len(ThinkOpen)}
        close == CHOOSE j \in closes : \A k \in closes : j <= k
    IN  SubSeq(s, close + Len(ThinkClose), Len(s))

\* C14: the message of an email result is the text after the end marker of
\* the thinking segment, trimmed, when the generated text has such a segment,
\* and the generated text, trimmed, when it has none.
C14_ThinkingSegmentRemoved ==
    \A c \in Clients :
        (Done(c, "email") /\ resp[c].kind = "ok")
        => LET text == Get(loc[c].gen)
           IN  resp[c].body.message =
                  (IF HasThinkingSegment(text)
                   THEN Strip(AfterThinkingSegment(text))
                   ELSE Strip(text))

Unhealthy(outcome) ==
    IsNone(outcome) \/ \A i \in 1..Len(Get(outcome)) : IsSpace(Get(outcome)[i])

HealthPcs == {"chat_health", "email_health"}
GenerationPcs == {"chat_llm", "email_llm"}

\* C16: when the health-check call of a chat or email request ends unhealthy,
\* the request is answered 503 in that step, the transcript and the agent's
\* context stay as they were, no prompt is prepared and no generation call is
\* made for the request; and a request reaches its own generation call only
\* from its health check, with a healthy outcome.
C16_HealthGate ==
    [][\A c \in Clients :
          /\ (pc[c] \in HealthPcs /\ pc'[c] # pc[c] /\ Unhealthy(loc'[c].health))
              => (/\ pc'[c] = "done"
                  /\ resp'[c].kind = "error" /\ resp'[c].status = 503
                  /\ transcript' = transcript
                  /\ agentCtx' = agentCtx
                  /\ IsNone(loc'[c].prepared)
                  /\ ~loc'[c].gen_done)
          /\ (pc'[c] \in GenerationPcs /\ pc[c] # pc'[c])
              => (/\ pc[c] \in HealthPcs
                  /\ loc'[c].health_done
                  /\ ~Unhealthy(loc'[c].health))]_vars

\* A chat request answered 503 after a health check that returned whitespace,
\* with an earlier exchange in the transcript and in the agent's context.
C16_Witness ==
    \E c \in Clients :
        /\ Done(c, "chat") /\ resp[c].status = 503
        /\ loc[c].health = Some(Chars(" \n"))
        /\ ~loc[c].gen_done
        /\ Len(transcript) = 2
        /\ "last_message" \in DOMAIN agentCtx
        /\ agentCtx["last_message"] = transcript[1].content
        /\ agentCtx["last_message"] # req[c].message

====
